---- MODULE Spec2Model ----
(***************************************************************************)
(* A model of the GPU transfer benchmark in src/main.rs: the size          *)
(* schedules (get_default_sizes, get_power_two_sizes), the statistics      *)
(* reduction (get_min_max_avg) and the sweep (run, execute_gpu).           *)
(*                                                                         *)
(* Four specifications share the module:                                   *)
(*   SpecSizes  get_default_sizes, called repeatedly, one loop pass a step *)
(*   SpecPow    get_power_two_sizes for every max_power up to MaxPower     *)
(*   SpecAgg    get_min_max_avg on every short sequence of durations       *)
(*   Spec       run: the sweep over the schedule, one suspension point or  *)
(*              blocking wait of execute_gpu per step                      *)
(* Target: a 64-bit build (usize is 64 bits wide).                         *)
(***************************************************************************)
EXTENDS Integers, Sequences, FiniteSets, TLC

VARIABLES
    \* get_default_sizes (SpecSizes)
    next_size,      \* the cursor of the loop
    sizes,          \* the vector being built
    returned,       \* the vectors returned so far, one per call
    s_pc,           \* "idle" | "loop"
    \* get_power_two_sizes (SpecPow)
    max_power,      \* the argument
    power,          \* the range iterator's next element
    pow_sizes,      \* the collected vector
    p_pc,           \* "idle" | "iter" | "returned"
    \* get_min_max_avg (SpecAgg)
    values,         \* the argument: a sequence of Durations
    stats,          \* the returned (min, max, avg)
    a_pc,           \* "idle" | "call" | "returned"
    \* run / execute_gpu (Spec)
    pc,             \* the position of the single task
    config,         \* Configuration: tries, verify
    data_sizes,     \* the schedule swept
    iteration,      \* enumerate() index of the current size
    trial,          \* the trial loop's counter, 1..=tries
    upload_data,    \* host buffer uploaded
    download_data,  \* host buffer downloaded into
    expected_sum,   \* iteration * data_size
    upload_buffer,  \* device buffer: contents
    download_buffer,\* device buffer: contents
    timings,        \* upload_time, gpu_gpu_time, download_time of this trial
    times,          \* the three per-phase duration vectors of this size
    tables,         \* measurement rows added to each of the three tables
    outstanding,    \* asynchronous requests submitted and not yet completed
    events,         \* this trial's steps in program order
    oops,           \* phases for which "oops" was printed in this trial
    failed,         \* phases whose completion signal failed in this trial
    corrupted       \* whether the download of this trial delivered a bad byte

sizeVars == <<next_size, sizes, returned, s_pc>>
powVars  == <<max_power, power, pow_sizes, p_pc>>
aggVars  == <<values, stats, a_pc>>
runVars  == <<pc, config, data_sizes, iteration, trial, upload_data,
              download_data, expected_sum, upload_buffer, download_buffer,
              timings, times, tables, outstanding, events, oops, failed,
              corrupted>>
vars == <<sizeVars, powVars, aggVars, runVars>>

\* Bounds of the model.
MaxCalls == 2
MaxPower == 66
MaxLen == 3
MaxTries == 2

(***************************************************************************)
(* get_default_sizes                                                       *)
(***************************************************************************)
StartSize == 1024
Ceiling == 67186688

\* A faulty variant of NextSize: the first threshold compared with <=.
NextSizeOffByOne(n) ==
    IF n <= 20480 THEN n + 1024
    ELSE IF n < 51200 THEN n + 2048
    ELSE IF n < 102400 THEN n + 10240
    ELSE IF n < 1126400 THEN n + 102400
    ELSE IF n < 16855040 THEN n + 1048576
    ELSE IF n < 33632256 THEN n + 2097152
    ELSE n + 4194304

\* The if/else chain that advances the cursor.
NextSize(n) ==
    IF n < 20480 THEN n + 1024
    ELSE IF n < 51200 THEN n + 2048
    ELSE IF n < 102400 THEN n + 10240
    ELSE IF n < 1126400 THEN n + 102400
    ELSE IF n < 16855040 THEN n + 1048576
    ELSE IF n < 33632256 THEN n + 2097152
    ELSE n + 4194304

\* A faulty variant of LoopBody: the cursor is advanced before it is pushed.
LoopBodyPushAfter(n, v) ==
    [next_size |-> NextSize(n), sizes |-> Append(v, NextSize(n))]

\* One pass of the while loop: push the cursor, then advance it.
LoopBody(n, v) ==
    [next_size |-> NextSize(n), sizes |-> Append(v, n)]

RECURSIVE DefaultSizesFrom(_, _)
DefaultSizesFrom(n, v) ==
    IF n <= Ceiling
    THEN LET b == LoopBody(n, v) IN DefaultSizesFrom(b.next_size, b.sizes)
    ELSE v

\* The whole function, as run calls it.
get_default_sizes == DefaultSizesFrom(StartSize, <<>>)

IdleSizes ==
    /\ next_size = 0
    /\ sizes = <<>>
    /\ returned = <<>>
    /\ s_pc = "idle"

CallDefaultSizes ==
    /\ s_pc = "idle"
    /\ Len(returned) < MaxCalls
    /\ sizes' = <<>>
    /\ next_size' = StartSize
    /\ s_pc' = "loop"
    /\ UNCHANGED returned
    /\ UNCHANGED <<powVars, aggVars, runVars>>

DefaultSizesLoop ==
    /\ s_pc = "loop"
    /\ next_size <= Ceiling
    /\ LET b == LoopBody(next_size, sizes) IN
          /\ next_size' = b.next_size
          /\ sizes' = b.sizes
    /\ UNCHANGED <<returned, s_pc>>
    /\ UNCHANGED <<powVars, aggVars, runVars>>

DefaultSizesReturn ==
    /\ s_pc = "loop"
    /\ ~(next_size <= Ceiling)
    /\ returned' = Append(returned, sizes)
    /\ s_pc' = "idle"
    /\ UNCHANGED <<next_size, sizes>>
    /\ UNCHANGED <<powVars, aggVars, runVars>>

(***************************************************************************)
(* f32: a value is zero, a positive normal number m * 2^e with             *)
(* 2^23 <= m < 2^24, infinity or NaN.  Every operation rounds to nearest,  *)
(* ties to even, as IEEE 754 single precision does.  Negative numbers and  *)
(* subnormals do not occur in the program's computations modelled here.    *)
(***************************************************************************)
Zero == [k |-> "zero", m |-> 0, e |-> 0]
Inf  == [k |-> "inf", m |-> 0, e |-> 0]
NaN  == [k |-> "nan", m |-> 0, e |-> 0]

\* A normalised mantissa and exponent; beyond the largest exponent: infinity.
Pack(m, e) == IF e + 23 > 127 THEN Inf ELSE [k |-> "pos", m |-> m, e |-> e]

\* The value n * 2^e (n > 0; plus a nonzero residue below n's last bit when
\* sticky), rounded to 24 bits.  With sticky, n carries at least 25 bits.
RECURSIVE RoundF32(_, _, _)
RoundF32(n, e, sticky) ==
    IF n < 2^23 THEN RoundF32(2 * n, e - 1, sticky)
    ELSE IF n < 2^24 THEN Pack(n, e)
    ELSE IF n >= 2^25 THEN RoundF32(n \div 2, e + 1, sticky \/ n % 2 = 1)
    ELSE LET q == n \div 2
             up == n % 2 = 1 /\ (sticky \/ q % 2 = 1)
             r == IF up THEN q + 1 ELSE q
         IN  IF r = 2^24 THEN Pack(2^23, e + 2) ELSE Pack(r, e + 1)

\* `n as f32` for an unsigned integer below 2^31.
IntToF32(n) == IF n = 0 THEN Zero ELSE RoundF32(n, 0, FALSE)

\* k quotient bits of r / d by long division, and whether a remainder is left.
RECURSIVE LongDiv(_, _, _, _)
LongDiv(r, d, q, k) ==
    IF k = 0 THEN [q |-> q, sticky |-> r # 0]
    ELSE LET bit == IF r >= d THEN 1 ELSE 0
         IN  LongDiv(2 * (r - bit * d), d, 2 * q + bit, k - 1)

DivF32(a, b) ==
    IF a.k = "nan" \/ b.k = "nan" THEN NaN
    ELSE IF b.k = "zero" THEN (IF a.k = "zero" THEN NaN ELSE Inf)
    ELSE IF b.k = "inf" THEN (IF a.k = "inf" THEN NaN ELSE Zero)
    ELSE IF a.k = "zero" THEN Zero
    ELSE IF a.k = "inf" THEN Inf
    ELSE LET d == LongDiv(a.m, b.m, 0, 27)
         IN  RoundF32(d.q, a.e - b.e - 26, d.sticky)

\* m = odd * 2^s
RECURSIVE OddPart(_, _)
OddPart(m, s) ==
    IF m % 2 = 0 THEN OddPart(m \div 2, s + 1) ELSE [m |-> m, s |-> s]

\* The exact product, then rounded (the product of the mantissas' odd parts
\* stays below 2^31 for every product the program forms here).
MulF32(a, b) ==
    IF a.k = "nan" \/ b.k = "nan" THEN NaN
    ELSE IF a.k = "inf" \/ b.k = "inf"
         THEN (IF a.k = "zero" \/ b.k = "zero" THEN NaN ELSE Inf)
    ELSE IF a.k = "zero" \/ b.k = "zero" THEN Zero
    ELSE LET x == OddPart(a.m, 0)
             y == OddPart(b.m, 0)
         IN  RoundF32(x.m * y.m, a.e + b.e + x.s + y.s, FALSE)

AddF32(a, b) ==
    IF a.k = "nan" \/ b.k = "nan" THEN NaN
    ELSE IF a.k = "inf" \/ b.k = "inf" THEN Inf
    ELSE IF a.k = "zero" THEN b
    ELSE IF b.k = "zero" THEN a
    ELSE LET hi == IF a.e >= b.e THEN a ELSE b
             lo == IF a.e >= b.e THEN b ELSE a
             d == hi.e - lo.e
         IN  IF d >= 26 THEN hi
             ELSE RoundF32(4 * hi.m + ((4 * lo.m) \div 2^d), hi.e - 2,
                           (4 * lo.m) % 2^d # 0)

\* a <= b on non-negative values; every comparison with NaN is false.
LeF32(a, b) ==
    IF a.k = "nan" \/ b.k = "nan" THEN FALSE
    ELSE IF a.k = "zero" THEN TRUE
    ELSE IF b.k = "inf" THEN TRUE
    ELSE IF a.k = "inf" \/ b.k = "zero" THEN FALSE
    ELSE a.e < b.e \/ (a.e = b.e /\ a.m <= b.m)

F32One == Pack(2^23, -23)
F32Two == Pack(2^23, -22)
F32Thousand == IntToF32(1000)

\* x.powi(n) for n >= 0, by repeated multiplication.
RECURSIVE Powi(_, _)
Powi(x, n) == IF n = 0 THEN F32One ELSE MulF32(x, Powi(x, n - 1))

(***************************************************************************)
(* usize: 64 bits.  Where the value may not fit TLC's integers it is kept  *)
(* as a binary numeral: the set of the positions of its 1 bits.            *)
(***************************************************************************)
UsizeBits == 64
UsizeMax == 0 .. (UsizeBits - 1)

BitsOf(m) == {i \in 0 .. 30 : (m \div 2^i) % 2 = 1}

\* 2^k as a numeral.
PowerOfTwo(k) == {k}

\* a < b on numerals: at the highest bit where they differ, b has the 1.
BitsLess(a, b) ==
    \E i \in b \ a : \A j \in (a \ b) : j < i

\* A faulty variant of F32ToUsize: the cast wraps (keeps the low 64 bits) instead
\* of saturating.
F32ToUsizeWrapping(x) ==
    IF x.k = "pos" THEN {i + x.e : i \in BitsOf(x.m)} \cap UsizeMax ELSE {}

\* `x as usize`: truncates toward zero and saturates; NaN gives 0.
F32ToUsize(x) ==
    IF x.k = "nan" \/ x.k = "zero" THEN {}
    ELSE IF x.k = "inf" THEN UsizeMax
    ELSE IF x.e + 23 >= UsizeBits THEN UsizeMax
    ELSE {i + x.e : i \in BitsOf(x.m)} \cap UsizeMax

(***************************************************************************)
(* get_power_two_sizes                                                     *)
(***************************************************************************)
\* The closure mapped over the range: 2.0_f32.powi(power as i32) as usize.
PowerToSize(p) == F32ToUsize(Powi(F32Two, p))

IdlePow ==
    /\ max_power = 0
    /\ power = 0
    /\ pow_sizes = <<>>
    /\ p_pc = "idle"

CallPowerTwoSizes ==
    /\ p_pc = "call"
    /\ power' = 2
    /\ pow_sizes' = <<>>
    /\ p_pc' = "iter"
    /\ UNCHANGED max_power
    /\ UNCHANGED <<sizeVars, aggVars, runVars>>

PowerTwoNext ==
    /\ p_pc = "iter"
    /\ power <= max_power
    /\ pow_sizes' = Append(pow_sizes, PowerToSize(power))
    /\ power' = power + 1
    /\ UNCHANGED <<max_power, p_pc>>
    /\ UNCHANGED <<sizeVars, aggVars, runVars>>

PowerTwoCollect ==
    /\ p_pc = "iter"
    /\ power > max_power
    /\ p_pc' = "returned"
    /\ UNCHANGED <<max_power, power, pow_sizes>>
    /\ UNCHANGED <<sizeVars, aggVars, runVars>>

(***************************************************************************)
(* std::time::Duration: whole seconds and nanoseconds below 10^9.          *)
(***************************************************************************)
NanosPerSec == 10^9

Dur(s, n) == [secs |-> s, nanos |-> n]
Millis(n) == Dur(n \div 1000, (n % 1000) * 10^6)
DurZero == Dur(0, 0)

DurAdd(a, b) ==
    Dur(a.secs + b.secs + (a.nanos + b.nanos) \div NanosPerSec,
        (a.nanos + b.nanos) % NanosPerSec)

DurLe(a, b) ==
    a.secs < b.secs \/ (a.secs = b.secs /\ a.nanos <= b.nanos)

\* Duration::as_secs_f32: (secs as f32) + (nanos as f32) / (NANOS_PER_SEC as f32)
AsSecsF32(d) ==
    AddF32(IntToF32(d.secs), DivF32(IntToF32(d.nanos), IntToF32(NanosPerSec)))

(***************************************************************************)
(* get_min_max_avg                                                         *)
(***************************************************************************)
RECURSIVE DurSum(_)
DurSum(v) == IF v = <<>> THEN DurZero ELSE DurAdd(v[1], DurSum(Tail(v)))

\* iter().min() / iter().max(): None on an empty slice.
DurMin(v) == CHOOSE d \in {v[i] : i \in 1 .. Len(v)} :
                 \A j \in 1 .. Len(v) : DurLe(d, v[j])
DurMax(v) == CHOOSE d \in {v[i] : i \in 1 .. Len(v)} :
                 \A j \in 1 .. Len(v) : DurLe(v[j], d)

\* as_secs_f32() * 1000.0
AsMillisF32(d) == MulF32(AsSecsF32(d), F32Thousand)

get_min_max_avg(v) ==
    LET sum == AsMillisF32(DurSum(v))
        min == AsMillisF32(IF v = <<>> THEN DurZero ELSE DurMin(v))
        max == AsMillisF32(IF v = <<>> THEN DurZero ELSE DurMax(v))
    IN  [min |-> min, max |-> max, avg |-> DivF32(sum, IntToF32(Len(v)))]

\* The durations the aggregation is tried on.
DurationPool ==
    {Dur(0, 3), Millis(10), Millis(20), Millis(30), Millis(127), Millis(1500)}

DurationSeqs == UNION {[1 .. n -> DurationPool] : n \in 0 .. MaxLen}

IdleAgg ==
    /\ values = <<>>
    /\ stats = Zero
    /\ a_pc = "idle"

CallGetMinMaxAvg ==
    /\ a_pc = "call"
    /\ stats' = get_min_max_avg(values)
    /\ a_pc' = "returned"
    /\ UNCHANGED values
    /\ UNCHANGED <<sizeVars, powVars, runVars>>

(***************************************************************************)
(* Byte buffers and byte sums.  A buffer is kept run-length encoded: a     *)
(* sequence of runs [v, n], n > 0 bytes of value v, adjacent runs of       *)
(* different value.  A byte sum may pass TLC's integers, so it is kept in  *)
(* two limbs, hi * 2^16 + lo; it stays far below 2^64.                     *)
(***************************************************************************)
U8(i) == i % 256

\* vec![v; n]
Fill(v, n) == IF n = 0 THEN <<>> ELSE <<[v |-> v, n |-> n]>>

RECURSIVE BufLen(_)
BufLen(b) == IF b = <<>> THEN 0 ELSE b[1].n + BufLen(Tail(b))

\* The buffer with its first byte replaced by c.
SetFirst(b, c) ==
    IF b = <<>> \/ b[1].v = c THEN b
    ELSE <<[v |-> c, n |-> 1]>>
         \o (IF b[1].n > 1 THEN <<[v |-> b[1].v, n |-> b[1].n - 1]>> ELSE <<>>)
         \o Tail(b)

\* The number of positions at which two buffers of one length differ.
RECURSIVE DiffCount(_, _)
DiffCount(a, b) ==
    IF a = <<>> \/ b = <<>> THEN 0
    ELSE LET n == IF a[1].n <= b[1].n THEN a[1].n ELSE b[1].n
             ra == IF a[1].n = n THEN Tail(a)
                   ELSE <<[v |-> a[1].v, n |-> a[1].n - n]>> \o Tail(a)
             rb == IF b[1].n = n THEN Tail(b)
                   ELSE <<[v |-> b[1].v, n |-> b[1].n - n]>> \o Tail(b)
         IN  (IF a[1].v = b[1].v THEN 0 ELSE n) + DiffCount(ra, rb)

Limb == 2^16
Wide(h, l) == [hi |-> h, lo |-> l]
WideZero == Wide(0, 0)

\* a * b for a below 2^8 and b below 2^31.
WideMul(a, b) ==
    LET low == a * (b % Limb)
    IN  Wide(a * (b \div Limb) + low \div Limb, low % Limb)

WideAdd(x, y) ==
    Wide(x.hi + y.hi + (x.lo + y.lo) \div Limb, (x.lo + y.lo) % Limb)

\* for item in host_data_download { total += *item as usize }, a run at a time.
RECURSIVE ByteSum(_)
ByteSum(b) ==
    IF b = <<>> THEN WideZero
    ELSE WideAdd(WideMul(b[1].v, b[1].n), ByteSum(Tail(b)))

\* A faulty variant of ExpectedSum: the index is taken as the byte written.
ExpectedSumOfByte(i, s) == WideMul(U8(i + 1), s)

\* let expected_sum = iteration * data_size
ExpectedSum(i, s) == WideMul(i, s)

(***************************************************************************)
(* run and execute_gpu                                                     *)
(***************************************************************************)
Phases == <<"upload", "gpu_gpu", "download">>

\* What Instant::elapsed() and the timestamp difference may return: no
\* measurable time (0), or some positive time (1 stands for every positive
\* duration; the sweep only stores and forwards the value).
Elapsed == {0, 1}

\* What a mapped download may deliver in place of the first byte.
BadBytes(b) == IF b = <<>> THEN {} ELSE {U8(b[1].v + 1)}

Ev(ph, ev, val) == [ph |-> ph, ev |-> ev, val |-> val]

IdleRun ==
    /\ pc = "idle"
    /\ config = [tries |-> 0, verify |-> FALSE]
    /\ data_sizes = <<>>
    /\ iteration = 0
    /\ trial = 0
    /\ upload_data = <<>>
    /\ download_data = <<>>
    /\ expected_sum = WideZero
    /\ upload_buffer = <<>>
    /\ download_buffer = <<>>
    /\ timings = <<>>
    /\ times = <<>>
    /\ tables = <<0, 0, 0>>
    /\ outstanding = 0
    /\ events = <<>>
    /\ oops = {}
    /\ failed = {}
    /\ corrupted = FALSE

\* run, up to the sweep: the device is requested, the tables are created and
\* the schedule is computed.
Setup ==
    /\ pc = "start"
    /\ data_sizes' = get_default_sizes
    /\ iteration' = 0
    /\ pc' = "size_loop"
    /\ UNCHANGED <<config, tables, trial, upload_data, download_data, expected_sum,
                   upload_buffer, download_buffer, timings, times,
                   outstanding, events, oops, failed, corrupted>>
    /\ UNCHANGED <<sizeVars, powVars, aggVars>>

\* The head of the loop over the sizes: the host buffers and the three
\* duration vectors of this size.
BeginSize ==
    /\ pc = "size_loop"
    /\ iteration < Len(data_sizes)
    /\ upload_data' = Fill(U8(iteration), data_sizes[iteration + 1])
    /\ download_data' = Fill(0, data_sizes[iteration + 1])
    /\ times' = <<<<>>, <<>>, <<>>>>
    /\ trial' = 1
    /\ pc' = "trial_loop"
    /\ UNCHANGED <<config, data_sizes, iteration, expected_sum, upload_buffer,
                   download_buffer, timings, tables, outstanding, events,
                   oops, failed, corrupted>>
    /\ UNCHANGED <<sizeVars, powVars, aggVars>>

\* The head of the trial loop and the entry of execute_gpu: the expected sum,
\* the two device buffers (zero-initialised), a blocking poll.
BeginTrial ==
    /\ pc = "trial_loop"
    /\ trial <= config.tries
    /\ expected_sum' = ExpectedSum(iteration, data_sizes[iteration + 1])
    /\ upload_buffer' = Fill(0, BufLen(upload_data))
    /\ download_buffer' = Fill(0, BufLen(upload_data))
    /\ timings' = <<>>
    /\ events' = <<Ev("upload", "create", 0), Ev("download", "create", 0)>>
    /\ oops' = {}
    /\ failed' = {}
    /\ corrupted' = FALSE
    /\ pc' = "upload_map"
    /\ UNCHANGED <<config, data_sizes, iteration, trial, upload_data,
                   download_data, times, tables, outstanding>>
    /\ UNCHANGED <<sizeVars, powVars, aggVars>>

\* A faulty variant of UploadMap: the timer is started after the request is made.
UploadMapLateTimer ==
    /\ pc = "upload_map"
    /\ outstanding' = outstanding + 1
    /\ events' = events \o <<Ev("upload", "submit", 0),
                             Ev("upload", "timer_start", 0)>>
    /\ pc' = "upload_await"
    /\ UNCHANGED <<config, data_sizes, iteration, trial, upload_data,
                   download_data, expected_sum, upload_buffer,
                   download_buffer, timings, times, tables, oops, failed,
                   corrupted>>
    /\ UNCHANGED <<sizeVars, powVars, aggVars>>

\* upload_time: Instant::now(), map_async(Write), poll.
UploadMap ==
    /\ pc = "upload_map"
    /\ outstanding' = outstanding + 1
    /\ events' = events \o <<Ev("upload", "timer_start", 0),
                             Ev("upload", "submit", 0)>>
    /\ pc' = "upload_await"
    /\ UNCHANGED <<config, data_sizes, iteration, trial, upload_data,
                   download_data, expected_sum, upload_buffer,
                   download_buffer, timings, times, tables, oops, failed,
                   corrupted>>
    /\ UNCHANGED <<sizeVars, powVars, aggVars>>

\* upload_time: the signal is received; on success the host data is copied
\* into the mapped buffer, otherwise "oops" is printed; either way the
\* block's value is start.elapsed().
UploadAwait ==
    /\ pc = "upload_await"
    /\ \E ok \in BOOLEAN, el \in Elapsed :
          /\ outstanding' = outstanding - 1
          /\ upload_buffer' = IF ok THEN upload_data ELSE upload_buffer
          /\ oops' = IF ok THEN oops ELSE oops \cup {"upload"}
          /\ failed' = IF ok THEN failed ELSE failed \cup {"upload"}
          /\ timings' = Append(timings, el)
          /\ events' = events \o <<Ev("upload", "observe", 0),
                                   Ev("upload", "timer_stop", el)>>
    /\ pc' = "gpu_submit"
    /\ UNCHANGED <<config, data_sizes, iteration, trial, upload_data,
                   download_data, expected_sum, download_buffer, times,
                   tables, corrupted>>
    /\ UNCHANGED <<sizeVars, powVars, aggVars>>

\* The timing buffer and the query set are created; gpu_gpu_time:
\* Instant::now(), the copy is encoded between two timestamps and submitted.
GpuSubmit ==
    /\ pc = "gpu_submit"
    /\ outstanding' = outstanding + 1
    /\ events' = events \o <<Ev("gpu_gpu", "create", 0),
                             Ev("gpu_gpu", "timer_start", 0),
                             Ev("gpu_gpu", "submit", 0)>>
    /\ pc' = "gpu_poll"
    /\ UNCHANGED <<config, data_sizes, iteration, trial, upload_data,
                   download_data, expected_sum, upload_buffer,
                   download_buffer, timings, times, tables, oops, failed,
                   corrupted>>
    /\ UNCHANGED <<sizeVars, powVars, aggVars>>

\* A faulty variant of GpuPoll: the poll returns without waiting for the copy.
GpuPollNoWait ==
    /\ pc = "gpu_poll"
    /\ pc' = "gpu_map"
    /\ UNCHANGED <<config, data_sizes, iteration, trial, upload_data,
                   download_data, expected_sum, upload_buffer,
                   download_buffer, timings, times, tables, outstanding,
                   events, oops, failed, corrupted>>
    /\ UNCHANGED <<sizeVars, powVars, aggVars>>

\* gpu_gpu_time: device.poll(Maintain::Wait) blocks until the submitted copy
\* is done.
GpuPoll ==
    /\ pc = "gpu_poll"
    /\ download_buffer' = upload_buffer
    /\ outstanding' = outstanding - 1
    /\ events' = Append(events, Ev("gpu_gpu", "observe", 0))
    /\ pc' = "gpu_map"
    /\ UNCHANGED <<config, data_sizes, iteration, trial, upload_data,
                   download_data, expected_sum, upload_buffer, timings,
                   times, tables, oops, failed, corrupted>>
    /\ UNCHANGED <<sizeVars, powVars, aggVars>>

\* gpu_gpu_time: map_async(Read) on the timing buffer, poll.
GpuMap ==
    /\ pc = "gpu_map"
    /\ outstanding' = outstanding + 1
    /\ events' = Append(events, Ev("gpu_gpu", "submit", 0))
    /\ pc' = "gpu_await"
    /\ UNCHANGED <<config, data_sizes, iteration, trial, upload_data,
                   download_data, expected_sum, upload_buffer,
                   download_buffer, timings, times, tables, oops, failed,
                   corrupted>>
    /\ UNCHANGED <<sizeVars, powVars, aggVars>>

\* gpu_gpu_time: the signal is received; on success the block's value is
\* the difference of the two timestamps, otherwise Duration::default().
GpuAwait ==
    /\ pc = "gpu_await"
    /\ \E ok \in BOOLEAN, ts \in Elapsed :
          /\ ~ok => ts = 0
          /\ outstanding' = outstanding - 1
          /\ failed' = IF ok THEN failed ELSE failed \cup {"gpu_gpu"}
          /\ timings' = Append(timings, ts)
          /\ events' = events \o
                <<Ev("gpu_gpu", "observe", 0)>> \o
                (IF ok THEN <<Ev("gpu_gpu", "timestamps", ts)>> ELSE <<>>)
    /\ pc' = "download_map"
    /\ UNCHANGED <<config, data_sizes, iteration, trial, upload_data,
                   download_data, expected_sum, upload_buffer,
                   download_buffer, times, tables, oops, corrupted>>
    /\ UNCHANGED <<sizeVars, powVars, aggVars>>

\* download_time: Instant::now(), map_async(Read), poll.
DownloadMap ==
    /\ pc = "download_map"
    /\ outstanding' = outstanding + 1
    /\ events' = events \o <<Ev("download", "timer_start", 0),
                             Ev("download", "submit", 0)>>
    /\ pc' = "download_await"
    /\ UNCHANGED <<config, data_sizes, iteration, trial, upload_data,
                   download_data, expected_sum, upload_buffer,
                   download_buffer, timings, times, tables, oops, failed,
                   corrupted>>
    /\ UNCHANGED <<sizeVars, powVars, aggVars>>

\* download_time: the signal is received; on success the mapped bytes (what
\* the device delivers, the first byte possibly bad) are copied to the host
\* and end_time = start.elapsed(); otherwise "oops" is printed and end_time
\* stays zero.
DownloadAwait ==
    /\ pc = "download_await"
    /\ \E ok \in BOOLEAN, el \in Elapsed,
          data \in {download_buffer}
                   \cup {SetFirst(download_buffer, c) : c \in BadBytes(download_buffer)} :
          /\ ~ok => (el = 0 /\ data = download_buffer)
          /\ outstanding' = outstanding - 1
          /\ download_data' = IF ok THEN data ELSE download_data
          /\ corrupted' = (ok /\ data # download_buffer)
          /\ oops' = IF ok THEN oops ELSE oops \cup {"download"}
          /\ failed' = IF ok THEN failed ELSE failed \cup {"download"}
          /\ timings' = Append(timings, el)
          /\ events' = events \o
                <<Ev("download", "observe", 0)>> \o
                (IF ok THEN <<Ev("download", "timer_stop", el)>> ELSE <<>>)
          /\ pc' = IF ok /\ config.verify THEN "verify" ELSE "return"
    /\ UNCHANGED <<config, data_sizes, iteration, trial, upload_data,
                   expected_sum, upload_buffer, download_buffer, times,
                   tables>>
    /\ UNCHANGED <<sizeVars, powVars, aggVars>>

\* if verify: the bytes are summed and assert_eq!(expected_sum, total); a
\* failed assertion panics, which ends the process.
Verify ==
    /\ pc = "verify"
    /\ events' = Append(events, Ev("download", "verify", 0))
    /\ pc' = IF expected_sum = ByteSum(download_data) THEN "return"
             ELSE "panicked"
    /\ UNCHANGED <<config, data_sizes, iteration, trial, upload_data,
                   download_data, expected_sum, upload_buffer,
                   download_buffer, timings, times, tables, outstanding,
                   oops, failed, corrupted>>
    /\ UNCHANGED <<sizeVars, powVars, aggVars>>

\* execute_gpu returns its three durations and drops its buffers; run pushes
\* each duration onto its vector and the trial loop goes round.
Return ==
    /\ pc = "return"
    /\ times' = [i \in 1 .. 3 |-> Append(times[i], timings[i])]
    /\ trial' = trial + 1
    /\ upload_buffer' = <<>>
    /\ download_buffer' = <<>>
    /\ timings' = <<>>
    /\ events' = <<>>
    /\ oops' = {}
    /\ failed' = {}
    /\ corrupted' = FALSE
    /\ pc' = "trial_loop"
    /\ UNCHANGED <<config, data_sizes, iteration, upload_data, download_data,
                   expected_sum, tables, outstanding>>
    /\ UNCHANGED <<sizeVars, powVars, aggVars>>

\* After the trial loop: one measurement row per table, the progress bar,
\* the next size.
EndSize ==
    /\ pc = "trial_loop"
    /\ trial > config.tries
    /\ tables' = [i \in 1 .. 3 |-> tables[i] + 1]
    /\ iteration' = iteration + 1
    /\ pc' = "size_loop"
    /\ UNCHANGED <<config, data_sizes, trial, upload_data, download_data,
                   expected_sum, upload_buffer, download_buffer, timings,
                   times, outstanding, events, oops, failed, corrupted>>
    /\ UNCHANGED <<sizeVars, powVars, aggVars>>

\* After the sweep: the three tables are printed.
Finish ==
    /\ pc = "size_loop"
    /\ iteration = Len(data_sizes)
    /\ pc' = "done"
    /\ UNCHANGED <<config, data_sizes, iteration, trial, upload_data,
                   download_data, expected_sum, upload_buffer,
                   download_buffer, timings, times, tables, outstanding,
                   events, oops, failed, corrupted>>
    /\ UNCHANGED <<sizeVars, powVars, aggVars>>

(***************************************************************************)
(* The specifications                                                      *)
(***************************************************************************)
InitSizes == IdleSizes /\ IdlePow /\ IdleAgg /\ IdleRun
NextSizes ==
    \/ CallDefaultSizes
    \/ DefaultSizesLoop
    \/ DefaultSizesReturn
SpecSizes == InitSizes /\ [][NextSizes]_vars

InitPow ==
    /\ IdleSizes /\ IdleAgg /\ IdleRun
    /\ max_power \in 0 .. MaxPower
    /\ power = 0
    /\ pow_sizes = <<>>
    /\ p_pc = "call"
NextPow ==
    \/ CallPowerTwoSizes
    \/ PowerTwoNext
    \/ PowerTwoCollect
SpecPow == InitPow /\ [][NextPow]_vars

InitAgg ==
    /\ IdleSizes /\ IdlePow /\ IdleRun
    /\ values \in DurationSeqs
    /\ stats = Zero
    /\ a_pc = "call"
NextAgg == CallGetMinMaxAvg
SpecAgg == InitAgg /\ [][NextAgg]_vars

Init ==
    /\ IdleSizes /\ IdlePow /\ IdleAgg
    /\ pc = "start"
    /\ config \in [tries : 0 .. MaxTries, verify : BOOLEAN]
    /\ data_sizes = <<>>
    /\ iteration = 0
    /\ trial = 0
    /\ upload_data = <<>>
    /\ download_data = <<>>
    /\ expected_sum = WideZero
    /\ upload_buffer = <<>>
    /\ download_buffer = <<>>
    /\ timings = <<>>
    /\ times = <<>>
    /\ tables = <<0, 0, 0>>
    /\ outstanding = 0
    /\ events = <<>>
    /\ oops = {}
    /\ failed = {}
    /\ corrupted = FALSE
Next ==
    \/ Setup
    \/ BeginSize
    \/ BeginTrial
    \/ UploadMap
    \/ UploadAwait
    \/ GpuSubmit
    \/ GpuPoll
    \/ GpuMap
    \/ GpuAwait
    \/ DownloadMap
    \/ DownloadAwait
    \/ Verify
    \/ Return
    \/ EndSize
    \/ Finish
Spec == Init /\ [][Next]_vars

(***************************************************************************)
(* The size schedules                                                      *)
(***************************************************************************)
StrictlyIncreasing(v) == \A i \in 1 .. Len(v) - 1 : v[i] < v[i + 1]

\* C1: every vector get_default_sizes returns is non-empty, strictly
\* increasing and holds no element above 67,186,688, and every call returns
\* the vector the first call returned.
C1_ScheduleShape ==
    \A c \in 1 .. Len(returned) :
        /\ returned[c] # <<>>
        /\ StrictlyIncreasing(returned[c])
        /\ \A i \in 1 .. Len(returned[c]) : returned[c][i] <= Ceiling
        /\ returned[c] = returned[1]

\* Two calls have returned.
C1_Witness == Len(returned) = 2 /\ s_pc = "idle"

\* 1024, 2048, ..., 20480, 22528, 24576
UpTo25000 == [i \in 1 .. 22 |-> IF i <= 20 THEN 1024 * i
                                ELSE 20480 + 2048 * (i - 20)]

AtMost25000(s) == s <= 25000

\* C2: a returned schedule starts at 1024; the element after s is s + 1024
\* when s < 20480 and s + 2048 when 20480 <= s < 51200; its elements that do
\* not exceed 25,000 (what the loop yields up to that bound) are exactly
\* 1024, 2048, ..., 20480, 22528, 24576.
C2_ScheduleSteps ==
    \A c \in 1 .. Len(returned) :
        LET v == returned[c] IN
        /\ v # <<>> /\ v[1] = 1024
        /\ \A i \in 1 .. Len(v) - 1 :
              /\ v[i] < 20480 => v[i + 1] = v[i] + 1024
              /\ (20480 <= v[i] /\ v[i] < 51200) => v[i + 1] = v[i] + 2048
        /\ SelectSeq(v, AtMost25000) = UpTo25000

\* A returned schedule passes 25,000 right after 24576.
C2_Witness ==
    /\ Len(returned) >= 1
    /\ returned[1][22] = 24576
    /\ returned[1][23] > 25000

PowerTwoLen == IF max_power < 2 THEN 0 ELSE max_power - 1

C4_Original ==
    (a_pc = "returned" /\ values # <<>>) =>
        /\ LeF32(stats.min, stats.avg)
        /\ LeF32(stats.avg, stats.max)
        /\ (\A i \in 1 .. Len(values) : values[i] = values[1]) =>
              (stats.min = stats.avg /\ stats.avg = stats.max)

(***************************************************************************)
(* The sweep                                                               *)
(***************************************************************************)
\* The places in this trial's steps of the events ev of phase ph.
EvIdx(ph, ev) ==
    {i \in 1 .. Len(events) : events[i].ph = ph /\ events[i].ev = ev}

\* C5 as stated: a phase whose completion signal failed has the anomaly
\* logged and reports a zero duration, and execution goes on.
C5_Original ==
    \A i \in 1 .. Len(timings) :
        Phases[i] \in failed =>
            /\ Phases[i] \in oops
            /\ timings[i] = 0
            /\ pc # "panicked"

\* C6 as stated: a failed completion signal never aborts the sweep, and each
\* size ends with tries entries in each of the three duration vectors.
C6_Original ==
    /\ pc = "panicked" => (failed = {} \/ corrupted)
    /\ (pc = "size_loop" /\ iteration > 0) =>
          \A i \in 1 .. 3 : Len(times[i]) = config.tries

\* C7 as stated: with tries = 0 the sweep never starts: no size is iterated,
\* no buffer is filled, no row is added.
C7_Original ==
    config.tries = 0 =>
        /\ pc \in {"start", "size_loop"}
        /\ iteration = 0
        /\ upload_data = <<>>
        /\ tables = <<0, 0, 0>>

\* C8: once the download of a trial at position i with size s has been
\* verified: if the downloaded bytes equal the uploaded pattern, their sum is
\* i * s and the trial returns; if exactly one byte differs, the sum is not
\* i * s and the run has panicked; and a panicked run takes no further step.
C8_Verification ==
    /\ (pc \in {"return", "panicked"} /\ EvIdx("download", "verify") # {}) =>
          LET d == DiffCount(download_data, upload_data)
              product == WideMul(iteration, data_sizes[iteration + 1])
          IN  /\ config.verify /\ "download" \notin failed
              /\ upload_data = Fill(U8(iteration), data_sizes[iteration + 1])
              /\ d = 0 => (ByteSum(download_data) = product /\ pc = "return")
              /\ d = 1 => (ByteSum(download_data) # product /\ pc = "panicked")
    /\ pc = "panicked" => ~ENABLED Next

\* At the last size of the schedule one bad byte has been delivered and the
\* run has panicked.
C8_Witness ==
    /\ pc = "panicked"
    /\ corrupted
    /\ failed = {}
    /\ iteration = Len(data_sizes) - 1
    /\ DiffCount(download_data, upload_data) = 1

IsSubmit(x) == x.ev = "submit"
IsRequestStep(x) == x.ev \in {"submit", "observe"}

\* The requests of a trial, in the order of the phases.
SubmitOrder == <<"upload", "gpu_gpu", "gpu_gpu", "download">>

\* C9: the requests of a trial are submitted in the order upload, device to
\* device (the copy, then the mapping of its timestamps), download; a request
\* is submitted only when the one before has been observed complete, so at
\* most one is outstanding; and none is outstanding between trials.
C9_OneOutstanding ==
    /\ outstanding \in {0, 1}
    /\ LET subs == SelectSeq(events, IsSubmit)
           steps == SelectSeq(events, IsRequestStep)
       IN  /\ Len(subs) <= Len(SubmitOrder)
           /\ \A i \in 1 .. Len(subs) : subs[i].ph = SubmitOrder[i]
           /\ \A i \in 1 .. Len(steps) :
                 /\ steps[i].ev = (IF i % 2 = 1 THEN "submit" ELSE "observe")
                 /\ i % 2 = 0 => steps[i].ph = steps[i - 1].ph
           /\ outstanding = Len(steps) % 2
    /\ pc \in {"start", "size_loop", "trial_loop", "upload_map", "verify",
               "return", "done"} => outstanding = 0

\* In a second trial the download request is the one outstanding.
C9_Witness ==
    /\ pc = "download_await"
    /\ trial = 2
    /\ outstanding = 1
    /\ Len(SelectSeq(events, IsSubmit)) = 4

\* This trial's steps of phase ph, in program order.
PhaseEvents(ph) == SelectSeq(events, LAMBDA x : x.ph = ph)

EvNames(pe) == {pe[k].ev : k \in 1 .. Len(pe)}

\* The order the claim gives the steps of a phase.
Rank(ev) ==
    CASE ev = "create" -> 1
      [] ev = "timer_start" -> 2
      [] ev = "submit" -> 3
      [] ev = "observe" -> 4
      [] ev = "timer_stop" -> 5
      [] ev = "verify" -> 6
      [] OTHER -> 0

\* Phase ph reports the interval of its timer: the resource is created, then
\* the timer is started, then the request is submitted, then the completion
\* is observed, then the timer is stopped and its reading is the duration
\* reported; a verification, if any, comes after that.
TimedByTimer(ph, i) ==
    LET pe == PhaseEvents(ph) IN
    /\ {"create", "timer_start", "submit", "observe", "timer_stop"}
          \subseteq EvNames(pe)
    /\ \A k \in 1 .. Len(pe) - 1 : Rank(pe[k].ev) < Rank(pe[k + 1].ev)
    /\ \E k \in 1 .. Len(pe) :
          pe[k].ev = "timer_stop" /\ pe[k].val = timings[i]

====
